---- MODULE Spec2Model ----
(***************************************************************************)
(* Connect-four rules engine (src/four.cxx): GameState, init_state,        *)
(* make_turn, trace_row_coordinate, check_line and is_terminal.            *)
(*                                                                         *)
(* Rows and columns are 0-based as in the source; the grid is a sequence   *)
(* of rows, so cell (r,c) of the source is grid[r+1][c+1] here.            *)
(***************************************************************************)
EXTENDS Integers, Sequences, FiniteSets, TLC

(***************************************************************************)
(* Bounds of the model.                                                    *)
(***************************************************************************)
\* Games from the empty grid: the largest width and height handed to
\* init_state, and the number of make_turn calls.
MaxWidth == 3
MaxHeight == 3
MaxTurns == 3
\* Games continued from a position: the largest width and height of the
\* grid, and the number of make_turn calls made on the position.
BoardWidth == 5
BoardHeight == 5
MaxExtra == 1
\* Widths of size_t and int in the model (64 and 32 in the build); int is
\* the narrower one, and every value the model handles fits in both.
SizeTBits == 16
IntBits == 8
\* Largest width and height of the grids of the games played whole.
DriverWidth == 2
DriverHeight == 2

(***************************************************************************)
(* Constants of the program.                                               *)
(***************************************************************************)
EMPTY_COLOR == 0
line_len == 4
line_offset == line_len - 1
line_steps == line_len * 2 - 1

InvalidColumn == "column index is outside of the grid range"
ColumnFull == "token cannot be placed in a given column as it's full or does not exist"
\* An optional<ErrMsgType> without a value.
NoError == "nullopt"

(***************************************************************************)
(* Integer conversions: size_t is unsigned and wraps, int is signed.       *)
(***************************************************************************)
SizeMod == 2 ^ SizeTBits
IntMod == 2 ^ IntBits

ToSizeT(i) == i % SizeMod

ToInt(u) ==
    LET m == u % IntMod
    IN  IF m >= IntMod \div 2 THEN m - IntMod ELSE m

Max(a, b) == IF a < b THEN b ELSE a
Min(a, b) == IF b < a THEN b ELSE a

\* optional<T>
None == [has_value |-> FALSE, value |-> 0]
Some(v) == [has_value |-> TRUE, value |-> v]

(***************************************************************************)
(* GameState                                                               *)
(***************************************************************************)
\* A default-constructed GameState (GameState state;).
DefaultState ==
    [grid |-> << >>, grid_width |-> 0, grid_height |-> 0, history |-> << >>]

\* state.grid[row][col]
Cell(st, row, col) == st.grid[row + 1][col + 1]

\* init_state with the dimension test joined by && instead of ||.
init_state_both_zero(w, h) ==
    IF w = 0 /\ h = 0
    THEN [has_value |-> FALSE, value |-> DefaultState]
    ELSE [has_value |-> TRUE,
          value |-> [grid |-> [i \in 1..h |-> [j \in 1..w |-> EMPTY_COLOR]],
                     grid_width |-> w,
                     grid_height |-> h,
                     history |-> << >>]]

\* GameState::init_state: an optional<GameState>.
init_state(w, h) ==
    IF w = 0 \/ h = 0
    THEN [has_value |-> FALSE, value |-> DefaultState]
    ELSE [has_value |-> TRUE,
          value |-> [grid |-> [i \in 1..h |-> [j \in 1..w |-> EMPTY_COLOR]],
                     grid_width |-> w,
                     grid_height |-> h,
                     history |-> << >>]]

(***************************************************************************)
(* check_line: the loop, with the cursor, the step and the running count.  *)
(***************************************************************************)
\* The loop testing the running count only after the cursor has moved and
\* passed the bounds tests.
RECURSIVE check_line_loop_bounds_first(_, _, _, _, _, _, _, _, _)
check_line_loop_bounds_first(st, row_id, col_id, inc_row, inc_col, steps, player_id, step_i, token_counter) ==
    IF ~(step_i < steps)
    THEN FALSE
    ELSE LET counter == IF Cell(st, row_id, col_id) = player_id
                        THEN token_counter + 1
                        ELSE 0
             col2 == col_id + inc_col
             row2 == row_id + inc_row
         IN  IF ToSizeT(row2) > ToSizeT(st.grid_height - 1) \/ row2 < 0
             THEN FALSE
             ELSE IF ToSizeT(col2) > ToSizeT(st.grid_width - 1) \/ col2 < 0
                  THEN FALSE
             ELSE IF counter = line_len THEN TRUE
             ELSE check_line_loop_bounds_first(st, row2, col2, inc_row, inc_col,
                                               steps, player_id, step_i + 1, counter)

\* The loop keeping its count across cells of other colours.
RECURSIVE check_line_loop_no_reset(_, _, _, _, _, _, _, _, _)
check_line_loop_no_reset(st, row_id, col_id, inc_row, inc_col, steps, player_id, step_i, token_counter) ==
    IF ~(step_i < steps)
    THEN FALSE
    ELSE LET counter == IF Cell(st, row_id, col_id) = player_id
                        THEN token_counter + 1
                        ELSE token_counter
             col2 == col_id + inc_col
             row2 == row_id + inc_row
         IN  IF counter = line_len THEN TRUE
             ELSE IF ToSizeT(row2) > ToSizeT(st.grid_height - 1) \/ row2 < 0
                  THEN FALSE
             ELSE IF ToSizeT(col2) > ToSizeT(st.grid_width - 1) \/ col2 < 0
                  THEN FALSE
             ELSE check_line_loop_no_reset(st, row2, col2, inc_row, inc_col,
                                           steps, player_id, step_i + 1, counter)

RECURSIVE check_line_loop(_, _, _, _, _, _, _, _, _)
check_line_loop(st, row_id, col_id, inc_row, inc_col, steps, player_id, step_i, token_counter) ==
    IF ~(step_i < steps)
    THEN FALSE
    ELSE LET counter == IF Cell(st, row_id, col_id) = player_id
                        THEN token_counter + 1
                        ELSE 0
             col2 == col_id + inc_col
             row2 == row_id + inc_row
         IN  IF counter = line_len THEN TRUE
             ELSE IF ToSizeT(row2) > ToSizeT(st.grid_height - 1) \/ row2 < 0
                  THEN FALSE
             ELSE IF ToSizeT(col2) > ToSizeT(st.grid_width - 1) \/ col2 < 0
                  THEN FALSE
             ELSE check_line_loop(st, row2, col2, inc_row, inc_col, steps,
                                  player_id, step_i + 1, counter)

check_line(st, start_row_i, start_col_i, inc_row, inc_col, steps, player_id) ==
    check_line_loop(st, start_row_i, start_col_i, inc_row, inc_col, steps,
                    player_id, 0, 0)

(***************************************************************************)
(* GameState::is_terminal                                                  *)
(***************************************************************************)
\* int(token - line_offset) clamped below by 0
ClampLow(token) == Max(ToInt(ToSizeT(ToSizeT(token) - line_offset)), 0)

\* min(int(token_col + line_offset), int(grid_width - 1))
ClampHigh(token, width) ==
    Min(ToInt(ToSizeT(ToSizeT(token) + line_offset)), ToInt(ToSizeT(width - 1)))

v_start(st, token_row, token_col) == <<ClampLow(token_row), token_col>>
h_start(st, token_row, token_col) == <<token_row, ClampLow(token_col)>>
d1_start(st, token_row, token_col) == <<ClampLow(token_row), ClampLow(token_col)>>
d2_start(st, token_row, token_col) ==
    <<ClampLow(token_row), ClampHigh(token_col, st.grid_width)>>

is_terminal(st) ==
    IF st.history = << >>
    THEN None
    ELSE LET last_turn == st.history[Len(st.history)]
             token_row == last_turn[1]
             token_col == last_turn[2]
             player_id == last_turn[3]
             v  == v_start(st, token_row, token_col)
             hs == h_start(st, token_row, token_col)
             d1 == d1_start(st, token_row, token_col)
             d2 == d2_start(st, token_row, token_col)
         IN  IF check_line(st, v[1], v[2], 1, 0, line_steps, player_id)
             THEN Some(player_id)
             ELSE IF check_line(st, hs[1], hs[2], 0, 1, line_steps, player_id)
             THEN Some(player_id)
             ELSE IF check_line(st, d1[1], d1[2], 1, 1, line_steps, player_id)
             THEN Some(player_id)
             ELSE IF check_line(st, d2[1], d2[2], 1, -1, line_steps, player_id)
             THEN Some(player_id)
             ELSE None

(***************************************************************************)
(* The grid reads of check_line and is_terminal: the cursor positions at   *)
(* which the loop evaluates state.grid[row_id][col_id].  A read outside    *)
(* the grid is undefined behaviour; the loop is followed no further.       *)
(***************************************************************************)
\* The loop with the cursor compared to grid_height and grid_width instead
\* of grid_height - 1 and grid_width - 1.
RECURSIVE check_line_reads_off_by_one(_, _, _, _, _, _, _, _, _)
check_line_reads_off_by_one(st, row_id, col_id, inc_row, inc_col, steps, player_id, step_i, token_counter) ==
    IF ~(step_i < steps)
    THEN {}
    ELSE {<<row_id, col_id>>} \cup
         IF ~(row_id \in 0..(st.grid_height - 1) /\ col_id \in 0..(st.grid_width - 1))
         THEN {}
         ELSE LET counter == IF Cell(st, row_id, col_id) = player_id
                             THEN token_counter + 1
                             ELSE 0
                  col2 == col_id + inc_col
                  row2 == row_id + inc_row
              IN  IF counter = line_len THEN {}
                  ELSE IF ToSizeT(row2) > ToSizeT(st.grid_height) \/ row2 < 0
                       THEN {}
                  ELSE IF ToSizeT(col2) > ToSizeT(st.grid_width) \/ col2 < 0
                       THEN {}
                  ELSE check_line_reads_off_by_one(st, row2, col2, inc_row, inc_col,
                                                   steps, player_id, step_i + 1, counter)

RECURSIVE check_line_reads(_, _, _, _, _, _, _, _, _)
check_line_reads(st, row_id, col_id, inc_row, inc_col, steps, player_id, step_i, token_counter) ==
    IF ~(step_i < steps)
    THEN {}
    ELSE {<<row_id, col_id>>} \cup
         IF ~(row_id \in 0..(st.grid_height - 1) /\ col_id \in 0..(st.grid_width - 1))
         THEN {}
         ELSE LET counter == IF Cell(st, row_id, col_id) = player_id
                             THEN token_counter + 1
                             ELSE 0
                  col2 == col_id + inc_col
                  row2 == row_id + inc_row
              IN  IF counter = line_len THEN {}
                  ELSE IF ToSizeT(row2) > ToSizeT(st.grid_height - 1) \/ row2 < 0
                       THEN {}
                  ELSE IF ToSizeT(col2) > ToSizeT(st.grid_width - 1) \/ col2 < 0
                       THEN {}
                  ELSE check_line_reads(st, row2, col2, inc_row, inc_col, steps,
                                        player_id, step_i + 1, counter)

\* The scans is_terminal starts, in order: <<start, inc_row, inc_col>>.
scans(st) ==
    LET last_turn == st.history[Len(st.history)]
    IN  << <<v_start(st, last_turn[1], last_turn[2]), 1, 0>>,
           <<h_start(st, last_turn[1], last_turn[2]), 0, 1>>,
           <<d1_start(st, last_turn[1], last_turn[2]), 1, 1>>,
           <<d2_start(st, last_turn[1], last_turn[2]), 1, -1>> >>

\* The reads of scan number i of is_terminal.
scan_reads(st, i) ==
    LET sc == scans(st)[i]
    IN  check_line_reads(st, sc[1][1], sc[1][2], sc[2], sc[3], line_steps,
                         st.history[Len(st.history)][3], 0, 0)

\* Scan number i is reached: no earlier scan returned true.
scan_runs(st, i) ==
    \A j \in 1..(i - 1) :
        LET sc == scans(st)[j]
        IN  ~check_line(st, sc[1][1], sc[1][2], sc[2], sc[3], line_steps,
                        st.history[Len(st.history)][3])

\* Every grid read of is_terminal.
is_terminal_reads(st) ==
    IF st.history = << >>
    THEN {}
    ELSE UNION {scan_reads(st, i) : i \in {j \in 1..4 : scan_runs(st, j)}}

(***************************************************************************)
(* trace_row_coordinate and make_turn                                      *)
(***************************************************************************)
\* The column scanned from the top row down: the first empty cell met is
\* the highest one.
trace_row_loop_from_top(st, col_i, row_i) ==
    LET empty == {r \in 0..row_i : Cell(st, r, col_i) = EMPTY_COLOR}
    IN  IF empty = {} THEN None
        ELSE Some(CHOOSE r \in empty : \A q \in empty : r <= q)

\* The loop with row_i > 0 for row_i >= 0: the top row is never offered.
RECURSIVE trace_row_loop_skips_top(_, _, _)
trace_row_loop_skips_top(st, col_i, row_i) ==
    IF ~(row_i > 0) THEN None
    ELSE IF Cell(st, row_i, col_i) = EMPTY_COLOR THEN Some(ToSizeT(row_i))
    ELSE trace_row_loop_skips_top(st, col_i, row_i - 1)

\* The loop without the test for an empty cell: the bottom row is always
\* the landing row.
trace_row_loop_no_test(st, col_i, row_i) ==
    IF ~(row_i >= 0) THEN None ELSE Some(ToSizeT(row_i))

RECURSIVE trace_row_loop(_, _, _)
trace_row_loop(st, col_i, row_i) ==
    IF ~(row_i >= 0) THEN None
    ELSE IF Cell(st, row_i, col_i) = EMPTY_COLOR THEN Some(ToSizeT(row_i))
    ELSE trace_row_loop(st, col_i, row_i - 1)

\* col_i is a size_t: col_i < 0 never holds.
trace_row_coordinate(st, col_i) ==
    IF col_i >= st.grid_width
    THEN None
    ELSE trace_row_loop(st, col_i, ToInt(ToSizeT(st.grid_height - 1)))

\* make_turn recording the turn before it looks for the landing row.
make_turn_records_first(st, col_i, player_id) ==
    IF col_i >= st.grid_width
    THEN [err |-> InvalidColumn, state |-> st]
    ELSE LET row_i_opt == trace_row_coordinate(st, col_i)
             row_i == row_i_opt.value
             entry == <<ToInt(row_i), ToInt(col_i), player_id>>
         IN  IF ~row_i_opt.has_value
             THEN [err |-> ColumnFull,
                   state |-> [st EXCEPT !.history = Append(@, entry)]]
             ELSE [err |-> NoError,
                   state |-> [st EXCEPT !.grid[row_i + 1][col_i + 1] = player_id,
                                        !.history = Append(@, entry)]]

\* make_turn inserting the turn at the front of the history.
make_turn_prepends(st, col_i, player_id) ==
    IF col_i >= st.grid_width
    THEN [err |-> InvalidColumn, state |-> st]
    ELSE LET row_i_opt == trace_row_coordinate(st, col_i)
             row_i == row_i_opt.value
             entry == <<ToInt(row_i), ToInt(col_i), player_id>>
         IN  IF ~row_i_opt.has_value
             THEN [err |-> ColumnFull, state |-> st]
             ELSE [err |-> NoError,
                   state |-> [st EXCEPT !.grid[row_i + 1][col_i + 1] = player_id,
                                        !.history = <<entry>> \o @]]

\* make_turn validating the column as a signed int, without the test for
\* a negative one.
make_turn_signed_column(st, col_i, player_id) ==
    IF ToInt(col_i) >= st.grid_width
    THEN [err |-> InvalidColumn, state |-> st]
    ELSE LET row_i_opt == trace_row_coordinate(st, col_i)
             row_i == row_i_opt.value
             entry == <<ToInt(row_i), ToInt(col_i), player_id>>
         IN  IF ~row_i_opt.has_value
             THEN [err |-> ColumnFull, state |-> st]
             ELSE [err |-> NoError,
                   state |-> [st EXCEPT !.grid[row_i + 1][col_i + 1] = player_id,
                                        !.history = Append(@, entry)]]

\* make_turn taking a full column's top cell instead of refusing the call.
make_turn_takes_top_cell(st, col_i, player_id) ==
    IF col_i >= st.grid_width
    THEN [err |-> InvalidColumn, state |-> st]
    ELSE LET row_i_opt == trace_row_coordinate(st, col_i)
             row_i == IF row_i_opt.has_value THEN row_i_opt.value ELSE 0
         IN  [err |-> NoError,
              state |->
                [st EXCEPT
                   !.grid[row_i + 1][col_i + 1] = player_id,
                   !.history = Append(@, <<ToInt(row_i), ToInt(col_i),
                                           player_id>>)]]

\* make_turn recording the landing row counted from the bottom of the grid.
make_turn_records_height(st, col_i, player_id) ==
    IF col_i >= st.grid_width
    THEN [err |-> InvalidColumn, state |-> st]
    ELSE LET row_i_opt == trace_row_coordinate(st, col_i)
         IN  IF ~row_i_opt.has_value
             THEN [err |-> ColumnFull, state |-> st]
             ELSE LET row_i == row_i_opt.value
                  IN  [err |-> NoError,
                       state |->
                         [st EXCEPT
                            !.grid[row_i + 1][col_i + 1] = player_id,
                            !.history = Append(@, <<st.grid_height - 1 - ToInt(row_i),
                                                    ToInt(col_i), player_id>>)]]

\* make_turn reporting no error on a full column.
make_turn_full_column_ok(st, col_i, player_id) ==
    IF col_i >= st.grid_width
    THEN [err |-> InvalidColumn, state |-> st]
    ELSE LET row_i_opt == trace_row_coordinate(st, col_i)
         IN  IF ~row_i_opt.has_value
             THEN [err |-> NoError, state |-> st]
             ELSE LET row_i == row_i_opt.value
                  IN  [err |-> NoError,
                       state |->
                         [st EXCEPT
                            !.grid[row_i + 1][col_i + 1] = player_id,
                            !.history = Append(@, <<ToInt(row_i), ToInt(col_i),
                                                    player_id>>)]]

\* The error returned and the state left behind.
make_turn(st, col_i, player_id) ==
    IF col_i >= st.grid_width
    THEN [err |-> InvalidColumn, state |-> st]
    ELSE LET row_i_opt == trace_row_coordinate(st, col_i)
         IN  IF ~row_i_opt.has_value
             THEN [err |-> ColumnFull, state |-> st]
             ELSE LET row_i == row_i_opt.value
                  IN  [err |-> NoError,
                       state |->
                         [st EXCEPT
                            !.grid[row_i + 1][col_i + 1] = player_id,
                            !.history = Append(@, <<ToInt(row_i), ToInt(col_i),
                                                    player_id>>)]]

(***************************************************************************)
(* Inputs.                                                                 *)
(***************************************************************************)
\* The ids the driver plays with (players = {1, 2}), and the ids make_turn
\* accepts: it does not refuse the empty marker.
Players == {1, 2}
PlayerIds == {EMPTY_COLOR} \cup Players
\* Column arguments: every column, the first one past the grid, and -1 as
\* the driver passes it (an int converted to size_t).
Columns(w) == (0..w) \cup {ToSizeT(-1)}

\* Grids of the games played from the empty grid.
Dims == (0..MaxWidth) \X (0..MaxHeight)
\* Grids of the games continued from a position.
Boards == (1..BoardWidth) \X (1..BoardHeight)

Directions == {<<1, 0>>, <<0, 1>>, <<1, 1>>, <<1, -1>>}

LineCells(r0, c0, d) == {<<r0 + k * d[1], c0 + k * d[2]>> : k \in 0..(line_len - 1)}

InGrid(w, h, cell) == cell[1] \in 0..(h - 1) /\ cell[2] \in 0..(w - 1)

(***************************************************************************)
(* Positions.  A position is reached from init_state by a script of        *)
(* make_turn calls that lays one line of line_len cells for a player,      *)
(* together with the tokens that must lie beneath it.  The script leaves   *)
(* one cell of the line (the gap, cell number gap) and everything above    *)
(* it unplayed, or lays the whole line (gap = line_len).  The gap of a     *)
(* vertical line is its top cell.                                          *)
(***************************************************************************)
Scripts(w, h) ==
    {s \in [r0 : 0..(h - 1), c0 : 0..(w - 1), d : Directions,
            gap : 0..line_len, p : Players] :
        /\ \A cell \in LineCells(s.r0, s.c0, s.d) : InGrid(w, h, cell)
        /\ (s.d = <<1, 0>> => s.gap \in {0, line_len})}

GapCell(s) == <<s.r0 + s.gap * s.d[1], s.c0 + s.gap * s.d[2]>>

\* The topmost row the script fills in column c (h when it fills none).
TopRow(s, h, c) ==
    LET rows == {cell[1] : cell \in {x \in LineCells(s.r0, s.c0, s.d) : x[2] = c}}
    IN  IF s.gap < line_len /\ c = GapCell(s)[2] THEN GapCell(s)[1] + 1
        ELSE IF rows = {} THEN h
        ELSE CHOOSE r \in rows : \A q \in rows : r <= q

\* The token the script puts in cell (r,c): the line's player on the line,
\* a pattern of both players beneath it.
ScriptColor(s, r, c) ==
    IF <<r, c>> \in LineCells(s.r0, s.c0, s.d) THEN s.p
    ELSE IF (r + (c \div 2)) % 2 = 0 THEN CHOOSE q \in Players : q # s.p
    ELSE s.p

\* The script's calls <<col_i, player_id>>, column by column, bottom up.
RECURSIVE ScriptMoves(_, _, _, _)
ScriptMoves(s, h, c, r) ==
    IF c > s.c0 + line_len THEN << >>
    ELSE IF r < TopRow(s, h, c) THEN ScriptMoves(s, h, c + 1, h - 1)
    ELSE <<<<c, ScriptColor(s, r, c)>>>> \o ScriptMoves(s, h, c, r - 1)

Openings(w, h) ==
    {<< >>} \cup {ScriptMoves(s, h, Max(s.c0 - line_len, 0), h - 1) : s \in Scripts(w, h)}

\* The state after the calls of moves, in order.
RECURSIVE Replay(_, _)
Replay(st, moves) ==
    IF moves = << >> THEN st
    ELSE Replay(make_turn(st, moves[1][1], moves[1][2]).state, Tail(moves))

(***************************************************************************)
(* State: the optional<GameState> held by the caller, the last call made   *)
(* on it with its arguments, and what that call returned.                  *)
(***************************************************************************)
VARIABLES
    state_result,   \* whether init_state returned a state
    state,          \* the GameState
    width, height,  \* the arguments of init_state
    op,             \* the last call: "init_state", "make_turn", "is_terminal"
    col_i,          \* the arguments of the last make_turn...
    player_id,
    err,            \* ... and what it returned
    term,           \* what the last is_terminal returned
    turns_left,     \* make_turn calls the run may still issue
    call,           \* the last check_line call made on its own: its
                    \* arguments and what it returned
    turn_counter    \* main's turn_counter

vars == <<state_result, state, width, height, op, col_i, player_id, err, term,
          turns_left, call, turn_counter>>

\* No check_line call was made.
NoCall ==
    [start_row_i |-> 0, start_col_i |-> 0, inc_row |-> 0, inc_col |-> 0,
     steps |-> 0, player_id |-> 0, result |-> FALSE]

\* init_state(w, h), then the calls of moves, then up to turns free calls.
Start(w, h, moves, turns) ==
    LET made == init_state(w, h)
        n == Len(moves)
    IN  /\ width = w
        /\ height = h
        /\ state_result = made.has_value
        /\ state = Replay(made.value, moves)
        /\ op = IF n = 0 THEN "init_state" ELSE "make_turn"
        /\ col_i = IF n = 0 THEN 0 ELSE moves[n][1]
        /\ player_id = IF n = 0 THEN 0 ELSE moves[n][2]
        /\ err = NoError
        /\ term = None
        /\ turns_left = turns
        /\ call = NoCall
        /\ turn_counter = 0

\* A game from the empty grid, or a game continued from a position.
Init ==
    \/ \E dim \in Dims : Start(dim[1], dim[2], << >>, MaxTurns)
    \/ \E dim \in Boards :
          \E moves \in Openings(dim[1], dim[2]) :
              Start(dim[1], dim[2], moves, MaxExtra)

\* make_turn(state, c, p)
MakeTurn(c, p) ==
    /\ state_result
    /\ turns_left > 0
    /\ LET res == make_turn(state, c, p)
       IN  /\ state' = res.state
           /\ err' = res.err
    /\ op' = "make_turn"
    /\ col_i' = c
    /\ player_id' = p
    /\ term' = None
    /\ turns_left' = turns_left - 1
    /\ UNCHANGED <<state_result, width, height, call, turn_counter>>

\* state.is_terminal()
IsTerminal ==
    /\ state_result
    /\ op' = "is_terminal"
    /\ term' = is_terminal(state)
    /\ UNCHANGED <<state_result, state, width, height, col_i, player_id, err,
                   turns_left, call, turn_counter>>

Next ==
    \/ \E c \in Columns(width), p \in PlayerIds : MakeTurn(c, p)
    \/ IsTerminal

Spec == Init /\ [][Next]_vars

(***************************************************************************)
(* The driver: main's turn loop.  It reads a column, has the current       *)
(* player make the turn, stops on an error, and asks is_terminal, stopping *)
(* on a winner.  The games are whole games on the smallest grids, with     *)
(* every column read free, and games on the larger grids whose first       *)
(* columns follow a pattern, a few free columns after them, and the first  *)
(* column past the grid as the last one read.                              *)
(***************************************************************************)
\* vector<int> players = {1, 2}
players == <<1, 2>>

\* The player of an iteration chosen after turn_counter was incremented.
current_player_after_increment(tc) == players[((tc + 1) % 2) + 1]

\* players[turn_counter % 2]
current_player(tc) == players[(tc % 2) + 1]

\* What cin >> token_col may leave in token_col on a grid of width w: a
\* column, the first one past the grid, or -1.  A read that fails at the end
\* of the input leaves token_col indeterminate: any of these.
Tokens(w) == -1..w

\* Grids of the games played whole.
DriverDims == (0..DriverWidth) \X (0..DriverHeight)

\* The columns read first on a w x h grid: two columns taken in turn
\* (Stack), or the columns one after the other, each taken k times (Sweep).
Stack(a, b, n) == [i \in 1..n |-> IF i % 2 = 1 THEN a ELSE b]
Sweep(w, a, k, n) == [i \in 1..n |-> (a + ((i - 1) \div k)) % w]

Patterns(w, h) ==
    {Stack(a, b, n) : a \in 0..(w - 1), b \in 0..(w - 1), n \in 0..(2 * h)}
        \cup {Sweep(w, a, k, n) : a \in 0..(w - 1), k \in {2, h}, n \in 0..(w * h)}

\* The loop run on the token columns cols, from state st with turn_counter
\* tc: whether it is still running after them, and the state it has reached.
RECURSIVE DriverRun(_, _, _)
DriverRun(st, cols, tc) ==
    IF cols = << >> THEN [running |-> TRUE, state |-> st, turn_counter |-> tc]
    ELSE LET res == make_turn(st, ToSizeT(Head(cols)), current_player(tc))
         IN  IF res.err # NoError \/ is_terminal(res.state).has_value
             THEN [running |-> FALSE, state |-> res.state, turn_counter |-> tc + 1]
             ELSE DriverRun(res.state, Tail(cols), tc + 1)

\* main before its first iteration, or after the iterations that read cols,
\* with free columns still to be read before the closing one.
DriverStart(w, h, cols, free) ==
    LET made == init_state(w, h)
        run == DriverRun(made.value, cols, 0)
        n == Len(cols)
    IN  /\ made.has_value \/ n = 0
        /\ n > 0 => run.running
        /\ width = w
        /\ height = h
        /\ state_result = made.has_value
        /\ state = IF n = 0 THEN made.value ELSE run.state
        /\ op = IF n = 0 THEN "init_state" ELSE "is_terminal"
        /\ col_i = IF n = 0 THEN 0 ELSE ToSizeT(cols[n])
        /\ player_id = IF n = 0 THEN 0 ELSE current_player(n - 1)
        /\ err = NoError
        /\ term = None
        /\ turns_left = free
        /\ call = NoCall
        /\ turn_counter = n

DriverInit ==
    \/ \E dim \in DriverDims : DriverStart(dim[1], dim[2], << >>, dim[1] * dim[2] + 1)
    \/ \E dim \in Boards :
          \E cols \in Patterns(dim[1], dim[2]) :
              DriverStart(dim[1], dim[2], cols, MaxExtra)

\* The loop is at the top of an iteration.
AtLoopHead ==
    /\ state_result
    /\ \/ op = "init_state"
       \/ op = "is_terminal" /\ ~term.has_value

\* Lines 237-246: pick the player, count the turn, read token_col, make_turn.
DriverMakeTurn(token_col) ==
    /\ AtLoopHead
    /\ IF turns_left > 0 THEN turns_left' = turns_left - 1
       ELSE token_col = width /\ turns_left' = turns_left
    /\ player_id' = current_player(turn_counter)
    /\ turn_counter' = turn_counter + 1
    /\ col_i' = ToSizeT(token_col)
    /\ LET res == make_turn(state, ToSizeT(token_col), current_player(turn_counter))
       IN  /\ state' = res.state
           /\ err' = res.err
    /\ op' = "make_turn"
    /\ UNCHANGED <<state_result, width, height, term, call>>

\* Lines 248-252: the call succeeded; is_terminal is asked.
DriverIsTerminal ==
    /\ state_result
    /\ op = "make_turn" /\ err = NoError
    /\ op' = "is_terminal"
    /\ term' = is_terminal(state)
    /\ UNCHANGED <<state_result, state, width, height, col_i, player_id, err,
                   turns_left, call, turn_counter>>

DriverNext ==
    \/ \E token_col \in Tokens(width) : DriverMakeTurn(token_col)
    \/ DriverIsTerminal

DriverSpec == DriverInit /\ [][DriverNext]_vars

\* The loop is sequential: while it has not ended its next statement runs.
FairDriverSpec == DriverSpec /\ WF_vars(DriverNext)

\* main has returned: init_state failed, make_turn returned an error, or
\* is_terminal returned a winner.
DriverEnded ==
    \/ ~state_result
    \/ op = "make_turn" /\ err # NoError
    \/ op = "is_terminal" /\ term.has_value

(***************************************************************************)
(* check_line on its own: from a position, one call with a start cell of   *)
(* the grid, a direction, a number of steps and a player id.               *)
(***************************************************************************)
\* Row and column increments: the four directions of is_terminal and their
\* opposites.
Increments == Directions \cup {<<-d[1], -d[2]>> : d \in Directions}
\* Numbers of steps: too few for a line, just enough, and line_steps.
StepCounts == {line_len - 1, line_len, line_steps}

\* The positions of the calls: the empty grid, and the first player's lines,
\* laid whole from every other cell and with their second cell left out from
\* the cells between.
CheckOpenings(w, h) ==
    {<< >>} \cup {ScriptMoves(s, h, Max(s.c0 - line_len, 0), h - 1) :
                    s \in {x \in Scripts(w, h) :
                              /\ x.p = 1
                              /\ x.gap = IF (x.r0 + x.c0) % 2 = 0 THEN line_len ELSE 1}}

CheckInit ==
    \E dim \in Boards :
        \E moves \in CheckOpenings(dim[1], dim[2]) :
            Start(dim[1], dim[2], moves, 0)

\* check_line(state, r0, c0, inc[1], inc[2], n, p)
CheckLine(r0, c0, inc, n, p) ==
    /\ state_result
    /\ op # "check_line"
    /\ op' = "check_line"
    /\ call' = [start_row_i |-> r0, start_col_i |-> c0, inc_row |-> inc[1],
                inc_col |-> inc[2], steps |-> n, player_id |-> p,
                result |-> check_line(state, r0, c0, inc[1], inc[2], n, p)]
    /\ UNCHANGED <<state_result, state, width, height, col_i, player_id, err,
                   term, turns_left, turn_counter>>

CheckNext ==
    \E r0 \in 0..(height - 1), c0 \in 0..(width - 1), inc \in Increments,
       n \in StepCounts, p \in PlayerIds :
        CheckLine(r0, c0, inc, n, p)

CheckSpec == CheckInit /\ [][CheckNext]_vars

(***************************************************************************)
(* Vocabulary of the properties, stated on the grid and the history and    *)
(* independent of the scanning code.                                       *)
(***************************************************************************)
Rows(st) == 0..(st.grid_height - 1)
Cols(st) == 0..(st.grid_width - 1)

\* The four cells starting at (r0,c0) in direction d lie in the grid and hold p.
FourAt(st, r0, c0, d, p) ==
    \A cell \in LineCells(r0, c0, d) :
        /\ InGrid(st.grid_width, st.grid_height, cell)
        /\ Cell(st, cell[1], cell[2]) = p

\* p has four in a row somewhere along a direction of ds.
HasFour(st, p, ds) ==
    \E r0 \in Rows(st), c0 \in Cols(st), d \in ds : FourAt(st, r0, c0, d, p)

\* p has four in a row along a direction of ds through cell (r,c).
HasFourThrough(st, p, ds, r, c) ==
    \E r0 \in Rows(st), c0 \in Cols(st), d \in ds :
        /\ FourAt(st, r0, c0, d, p)
        /\ <<r, c>> \in LineCells(r0, c0, d)

\* Some player (a non-empty token) has four in a row.
AnyFour(st) == \E p \in Players : HasFour(st, p, Directions)

NonZeroIds(st) == \A i \in 1..Len(st.history) : st.history[i][3] # 0

LastTurn(st) == st.history[Len(st.history)]

\* The state before the last successful move of non-zero id was made.
BeforeLast(st) ==
    [st EXCEPT !.grid[LastTurn(st)[1] + 1][LastTurn(st)[2] + 1] = EMPTY_COLOR,
               !.history = SubSeq(@, 1, Len(@) - 1)]

EmptyRows(st, c) == {r \in Rows(st) : Cell(st, r, c) = EMPTY_COLOR}

\* The empty cell of column c with the largest row index.
LowestEmpty(st, c) == CHOOSE r \in EmptyRows(st, c) : \A q \in EmptyRows(st, c) : q <= r

\* The number of history entries that name column c.
Placements(st, c) == Cardinality({i \in 1..Len(st.history) : st.history[i][2] = c})

\* This step is a make_turn call (primed variables hold its arguments and result).
TurnStep == op' = "make_turn" /\ turns_left' = turns_left - 1

\* is_terminal has just answered about a game with at least one move, all
\* of them by non-zero player ids.
TerminalAsked ==
    op = "is_terminal" /\ state.history # << >> /\ NonZeroIds(state)

(***************************************************************************)
(* C1: in a game of non-zero ids whose grid held no four-in-a-row before   *)
(* the last move, is_terminal returns Some(P) for the last mover P if and  *)
(* only if the grid holds four consecutive P tokens along a row, a column  *)
(* or a diagonal, and None otherwise.                                      *)
(***************************************************************************)
C1_TerminalIffFour ==
    (TerminalAsked /\ ~AnyFour(BeforeLast(state))) =>
        term = IF HasFour(state, LastTurn(state)[3], Directions)
               THEN Some(LastTurn(state)[3])
               ELSE None

(***************************************************************************)
(* C2: init_state(w,h) returns a state iff w > 0 and h > 0; the state has  *)
(* grid_width = w, grid_height = h, h rows of w empty cells and an empty   *)
(* history; with a zero dimension no state is returned.                    *)
(***************************************************************************)
C2_InitState ==
    op = "init_state" =>
        /\ state_result <=> (width > 0 /\ height > 0)
        /\ state_result =>
            /\ state.grid_width = width
            /\ state.grid_height = height
            /\ Len(state.grid) = height
            /\ \A i \in 1..height :
                /\ Len(state.grid[i]) = width
                /\ \A j \in 1..width : state.grid[i][j] = EMPTY_COLOR
            /\ state.history = << >>

C2_Witness ==
    op = "init_state" /\ state_result /\ width = 3 /\ height = 2

(***************************************************************************)
(* C3: gravity. With non-zero ids, a successful make_turn(state, c, p)     *)
(* writes p into the empty cell of column c with the largest row index,    *)
(* every cell below it is non-empty, and no reachable grid has an empty    *)
(* cell underneath a non-empty cell of the same column.                    *)
(***************************************************************************)
NoFloating(st) ==
    \A c \in Cols(st), r \in Rows(st) :
        Cell(st, r, c) # EMPTY_COLOR =>
            \A q \in Rows(st) : q > r => Cell(st, q, c) # EMPTY_COLOR

C3_Gravity ==
    /\ [](NonZeroIds(state) => NoFloating(state))
    /\ [][(TurnStep /\ err' = NoError /\ NonZeroIds(state'))
           => /\ EmptyRows(state, col_i') # {}
              /\ LET r == LowestEmpty(state, col_i')
                 IN  /\ Cell(state', r, col_i') = player_id'
                     /\ \A q \in Rows(state) :
                            q > r => Cell(state, q, col_i') # EMPTY_COLOR]_vars

\* A token has just landed on top of another one.
C3_Witness ==
    /\ op = "make_turn" /\ err = NoError
    /\ NonZeroIds(state)
    /\ LastTurn(state)[1] < state.grid_height - 1
    /\ LastTurn(state)[1] > 0

(***************************************************************************)
(* C4: no mutation on failure. When make_turn returns an error, the grid,  *)
(* the history, grid_width and grid_height are what they were before.      *)
(***************************************************************************)
C4_NoMutationOnFailure ==
    [][(TurnStep /\ err' # NoError) => state' = state]_vars

\* A failed call on a column that is full.
C4_Witness ==
    /\ op = "make_turn" /\ err = ColumnFull
    /\ state.history # << >>

(***************************************************************************)
(* C5: the history is append-only. A successful make_turn(state, c, p)     *)
(* appends (landing row, c, p) and leaves the earlier entries as they      *)
(* were; a failed one leaves the history unchanged.                        *)
(***************************************************************************)
C5_HistoryAppendOnly ==
    [][TurnStep =>
         IF err' = NoError
         THEN /\ EmptyRows(state, col_i') # {}
              /\ state'.history =
                    Append(state.history,
                           <<LowestEmpty(state, col_i'), col_i', player_id'>>)
         ELSE state'.history = state.history]_vars

\* A successful call that found earlier entries in the history.
C5_Witness ==
    /\ op = "make_turn" /\ err = NoError
    /\ Len(state.history) >= 3
    /\ LastTurn(state)[1] # state.history[1][1]

(***************************************************************************)
(* C6: column exhaustion. With non-zero ids and a valid column c,          *)
(* make_turn returns ColumnFull iff column c already received grid_height  *)
(* placements, and then leaves the state unchanged; with fewer it          *)
(* succeeds.                                                               *)
(***************************************************************************)
C6_ColumnExhaustion ==
    [][(TurnStep /\ col_i' \in Cols(state) /\ NonZeroIds(state'))
         => /\ err' = ColumnFull <=> Placements(state, col_i') = state.grid_height
            /\ err' = ColumnFull => state' = state
            /\ Placements(state, col_i') < state.grid_height => err' = NoError]_vars

\* A column of at least two rows was filled and then refused a token.
C6_Witness ==
    /\ op = "make_turn" /\ err = ColumnFull
    /\ NonZeroIds(state)
    /\ state.grid_height >= 2
    /\ col_i \in Cols(state)
    /\ Placements(state, col_i) = state.grid_height

(***************************************************************************)
(* C7: out-of-range column. make_turn returns InvalidColumn iff col is     *)
(* not in [0, grid_width), for grid_width itself and for a negative int    *)
(* wrapped to size_t, whatever the grid holds.                             *)
(***************************************************************************)
C7_InvalidColumn ==
    op = "make_turn" => (err = InvalidColumn <=> col_i \notin Cols(state))

\* -1 from the driver was refused on a grid that holds tokens.
C7_Witness ==
    /\ op = "make_turn" /\ err = InvalidColumn
    /\ col_i = ToSizeT(-1)
    /\ state.history # << >>

(***************************************************************************)
(* C8: horizontal win detection. If the last move by P at (r,c) lies in    *)
(* four consecutive P tokens of row r, is_terminal returns Some(P); with   *)
(* only three consecutive P tokens in the row through (r,c) and no line    *)
(* of four through the cell, it returns None.                              *)
(***************************************************************************)
\* Exactly three consecutive P tokens of row r include (r,c).
ThreeInRow(st, p, r, c) ==
    /\ ~HasFourThrough(st, p, {<<0, 1>>}, r, c)
    /\ \E c0 \in Cols(st) :
        /\ c \in c0..(c0 + 2)
        /\ \A k \in c0..(c0 + 2) : k \in Cols(st) /\ Cell(st, r, k) = p

C8_HorizontalWin ==
    TerminalAsked =>
        LET r == LastTurn(state)[1]
            c == LastTurn(state)[2]
            p == LastTurn(state)[3]
        IN  /\ HasFourThrough(state, p, {<<0, 1>>}, r, c) => term = Some(p)
            /\ (ThreeInRow(state, p, r, c)
                  /\ ~HasFourThrough(state, p, Directions, r, c)) => term = None

(***************************************************************************)
(* C9: vertical win detection. If the last move by P at (r,c) sits on top  *)
(* of three P tokens (cells (r,c)..(r+3,c) all P), is_terminal returns     *)
(* Some(P); with fewer than four consecutive P tokens in the column and    *)
(* no other line of four through the cell, it returns None.                *)
(***************************************************************************)
C9_VerticalWin ==
    TerminalAsked =>
        LET r == LastTurn(state)[1]
            c == LastTurn(state)[2]
            p == LastTurn(state)[3]
        IN  /\ FourAt(state, r, c, <<1, 0>>, p) => term = Some(p)
            /\ (~FourAt(state, r, c, <<1, 0>>, p)
                  /\ ~HasFourThrough(state, p, Directions, r, c)) => term = None

(***************************************************************************)
(* C10: diagonal win detection, direction (+1,+1). If the last move by P   *)
(* at (r,c) lies in four consecutive cells (r0+k, c0+k), k = 0..3, that    *)
(* all hold P, is_terminal returns Some(P), wherever the line lies and     *)
(* whichever of its cells was filled last.                                 *)
(***************************************************************************)
C10_DiagonalDownRight ==
    TerminalAsked =>
        LET r == LastTurn(state)[1]
            c == LastTurn(state)[2]
            p == LastTurn(state)[3]
        IN  HasFourThrough(state, p, {<<1, 1>>}, r, c) => term = Some(p)

(***************************************************************************)
(* C11: diagonal win detection, direction (+1,-1). If the last move by P   *)
(* at (r,c) lies in four consecutive cells (r0+k, c0-k), k = 0..3, that    *)
(* all hold P, is_terminal returns Some(P), wherever the line lies and     *)
(* whichever of its cells was filled last.                                 *)
(***************************************************************************)
C11_DiagonalDownLeft ==
    TerminalAsked =>
        LET r == LastTurn(state)[1]
            c == LastTurn(state)[2]
            p == LastTurn(state)[3]
        IN  HasFourThrough(state, p, {<<1, -1>>}, r, c) => term = Some(p)

(***************************************************************************)
(* C12: boundary scan safety. Every grid read of the four scans of         *)
(* is_terminal uses a row in [0, grid_height) and a column in              *)
(* [0, grid_width); a scan stops when its cursor leaves the grid, so each  *)
(* scan reads only cells of the straight line from its start, never one    *)
(* reached by wrapping to another row or column.                           *)
(***************************************************************************)
C12_ReadsInGrid ==
    (op = "is_terminal" /\ state.history # << >>) =>
        LET all == scans(state)
        IN  \A i \in 1..4 :
                LET sc == all[i]
                    reads == scan_reads(state, i)
                IN  /\ scan_runs(state, i) =>
                          \A cell \in reads :
                              InGrid(state.grid_width, state.grid_height, cell)
                    /\ \A cell \in reads :
                          \E k \in 0..(line_steps - 1) :
                              cell = <<sc[1][1] + k * sc[2], sc[1][2] + k * sc[3]>>

\* The last move went to the top right corner of a grid narrower than
\* line_len, and all four scans ran.
C12_Witness ==
    /\ op = "is_terminal" /\ state.history # << >>
    /\ state.grid_width < line_len /\ state.grid_height > 1
    /\ LastTurn(state)[1] = 0
    /\ LastTurn(state)[2] = state.grid_width - 1
    /\ scan_runs(state, 4)
    /\ Cardinality(is_terminal_reads(state)) > 2

(***************************************************************************)
(* C13: the history is bounded by the grid and ends with the last token.   *)
(* As claimed, for any sequence of make_turn calls: history.length <=      *)
(* grid_width * grid_height, and the most recent entry names the cell      *)
(* written by the last successful make_turn and holds the id stored there. *)
(***************************************************************************)
\* The most recent entry names a cell of the grid that stores the entry's
\* player id; after a successful make_turn it carries that call's column
\* and player id.
LastEntryIsLastToken ==
    state.history # << >> =>
        /\ InGrid(state.grid_width, state.grid_height,
                  <<LastTurn(state)[1], LastTurn(state)[2]>>)
        /\ Cell(state, LastTurn(state)[1], LastTurn(state)[2]) = LastTurn(state)[3]
        /\ (op = "make_turn" /\ err = NoError) =>
              /\ LastTurn(state)[2] = col_i
              /\ LastTurn(state)[3] = player_id

C13_HistoryBoundedAnyIds ==
    state_result =>
        /\ Len(state.history) <= state.grid_width * state.grid_height
        /\ LastEntryIsLastToken

(***************************************************************************)
(* C13 as amended: the bound holds for make_turn calls with non-zero       *)
(* player ids (a call with id 0 succeeds, leaves its cell empty and still  *)
(* extends the history); with such ids the last entry's cell is also the   *)
(* topmost token of its column.                                            *)
(***************************************************************************)
C13_HistoryBounded ==
    state_result =>
        /\ LastEntryIsLastToken
        /\ NonZeroIds(state) =>
              /\ Len(state.history) <= state.grid_width * state.grid_height
              /\ state.history # << >> =>
                    \A q \in Rows(state) :
                        q < LastTurn(state)[1] =>
                            Cell(state, q, LastTurn(state)[2]) = EMPTY_COLOR

\* A grid of at least two cells was filled completely.
C13_Witness ==
    /\ state_result /\ NonZeroIds(state)
    /\ op = "make_turn" /\ err = NoError
    /\ state.grid_width * state.grid_height >= 2
    /\ Len(state.history) = state.grid_width * state.grid_height

(***************************************************************************)
(* C14: each of the four scans of is_terminal runs along the line through  *)
(* the last-placed cell (r,c): its start cell lies in the grid, on the     *)
(* line through (r,c) in the scan's direction, at most line_offset cells   *)
(* before (r,c).                                                           *)
(***************************************************************************)
C14_StartOnLine ==
    (op = "is_terminal" /\ state.history # << >>) =>
        \A i \in 1..4 :
            LET sc == scans(state)[i]
            IN  /\ InGrid(state.grid_width, state.grid_height, sc[1])
                /\ \E k \in 0..line_offset :
                      sc[1] = <<LastTurn(state)[1] - k * sc[2],
                                LastTurn(state)[2] - k * sc[3]>>

(***************************************************************************)
(* C15: check_line started on a cell of the grid returns true iff, among   *)
(* the cells visited in order (r0 + i*dr, c0 + i*dc), i = 0..steps-1, cut  *)
(* off at the first cell outside the grid, there are line_len consecutive  *)
(* cells equal to p; any other cell breaks a run, and a run completed on   *)
(* the last cell before the cursor leaves the grid still counts.           *)
(***************************************************************************)
\* Cell number i of the visit.
Visited(cl, i) == <<cl.start_row_i + i * cl.inc_row, cl.start_col_i + i * cl.inc_col>>

\* The number of cells visited: steps, or fewer when the grid ends first.
VisitLen(st, cl) ==
    Cardinality({i \in 0..(cl.steps - 1) :
                    \A j \in 0..i : InGrid(st.grid_width, st.grid_height, Visited(cl, j))})

\* The visit holds line_len consecutive cells equal to the player id.
VisitHasRun(st, cl) ==
    \E i \in 0..(VisitLen(st, cl) - line_len) :
        \A j \in i..(i + line_len - 1) :
            Cell(st, Visited(cl, j)[1], Visited(cl, j)[2]) = cl.player_id

C15_CheckLine ==
    op = "check_line" => (call.result <=> VisitHasRun(state, call))

\* A run was completed on the last cell before the cursor left the grid,
\* after a cell that broke an earlier count.
C15_Witness ==
    /\ op = "check_line" /\ call.result
    /\ call.steps = line_steps
    /\ VisitLen(state, call) = line_len + 1
    /\ Cell(state, call.start_row_i, call.start_col_i) # call.player_id
    /\ call.player_id # EMPTY_COLOR

(***************************************************************************)
(* C17: after make_turn calls with non-zero player ids, is_terminal        *)
(* returns no winner when the history is empty, and a winner it returns is *)
(* the player of the last history entry and has four consecutive cells in  *)
(* a straight line (vertical, horizontal or diagonal) inside the grid.     *)
(***************************************************************************)
C17_Soundness ==
    (op = "is_terminal" /\ NonZeroIds(state)) =>
        /\ state.history = << >> => term = None
        /\ term.has_value =>
              /\ state.history # << >>
              /\ term.value = LastTurn(state)[3]
              /\ HasFour(state, term.value, Directions)

\* is_terminal has returned a winner whose line is a diagonal.
C17_Witness ==
    /\ op = "is_terminal" /\ NonZeroIds(state)
    /\ term.has_value
    /\ ~HasFour(state, term.value, {<<1, 0>>, <<0, 1>>})

(***************************************************************************)
(* C18: frame of a successful move. A successful make_turn(state, c, p)    *)
(* changes exactly one grid cell, which was empty before the call and lies *)
(* in column c; every other cell, grid_width and grid_height are           *)
(* unchanged. No call overwrites or clears a non-empty cell, and           *)
(* is_terminal changes nothing.                                            *)
(***************************************************************************)
\* The cells whose content differs between st and st2.
ChangedCells(st, st2) ==
    {cell \in Rows(st) \X Cols(st) :
        Cell(st2, cell[1], cell[2]) # Cell(st, cell[1], cell[2])}

\* One cell changed: it was empty and lies in column c.
OneCellFilled(st, st2, c) ==
    LET changed == ChangedCells(st, st2)
    IN  /\ Cardinality(changed) = 1
        /\ \A cell \in changed :
              /\ cell[2] = c
              /\ Cell(st, cell[1], cell[2]) = EMPTY_COLOR

\* What every call leaves alone.
FrameKept ==
    /\ state'.grid_width = state.grid_width
    /\ state'.grid_height = state.grid_height
    /\ \A cell \in Rows(state) \X Cols(state) :
          Cell(state, cell[1], cell[2]) # EMPTY_COLOR =>
              Cell(state', cell[1], cell[2]) = Cell(state, cell[1], cell[2])
    /\ op' = "is_terminal" => state' = state

\* As stated: for every player id.
C18_FrameAnyIds ==
    [][/\ FrameKept
       /\ (TurnStep /\ err' = NoError) => OneCellFilled(state, state', col_i')]_vars

\* With a non-zero player id a successful make_turn fills exactly one cell;
\* with the id of the empty marker it changes no cell.
C18_Frame ==
    [][/\ FrameKept
       /\ (TurnStep /\ err' = NoError) =>
             IF player_id' # EMPTY_COLOR
             THEN OneCellFilled(state, state', col_i')
             ELSE ChangedCells(state, state') = {}]_vars

\* A successful call of a non-zero id on a grid that held tokens of both
\* players, on top of one of them.
C18_Witness ==
    /\ op = "make_turn" /\ err = NoError /\ player_id # EMPTY_COLOR
    /\ turns_left = 0
    /\ Len(state.history) >= 3
    /\ LastTurn(state)[1] < state.grid_height - 1
    /\ \E i, j \in 1..(Len(state.history) - 1) :
          state.history[i][3] # state.history[j][3]

(***************************************************************************)
(* C19: grid and history agree. After make_turn calls with non-zero        *)
(* player ids, the history entries name pairwise distinct cells, every     *)
(* entry (r,c,p) has grid[r][c] = p, and a cell is non-empty iff an entry  *)
(* names it; so the number of non-empty cells is the history's length and  *)
(* the number of tokens in column c is the number of entries of column c.  *)
(***************************************************************************)
NonEmptyCells(st) ==
    {cell \in Rows(st) \X Cols(st) : Cell(st, cell[1], cell[2]) # EMPTY_COLOR}

C19_GridHistoryAgree ==
    (state_result /\ NonZeroIds(state)) =>
        LET hist == state.history
            named == {<<hist[i][1], hist[i][2]>> : i \in 1..Len(hist)}
            filled == NonEmptyCells(state)
        IN  /\ Cardinality(named) = Len(hist)
            /\ filled = named
            /\ \A i \in 1..Len(hist) :
                  Cell(state, hist[i][1], hist[i][2]) = hist[i][3]
            /\ Cardinality(filled) = Len(hist)
            /\ \A c \in Cols(state) :
                  Cardinality({cell \in filled : cell[2] = c}) = Placements(state, c)

\* A successful call has put a token on top of others, with tokens of both
\* players in more than one column.
C19_Witness ==
    /\ op = "make_turn" /\ err = NoError /\ turns_left = 0
    /\ NonZeroIds(state)
    /\ Len(state.history) >= 4
    /\ LastTurn(state)[1] < state.grid_height - 1
    /\ \E i, j \in 1..Len(state.history) :
          /\ state.history[i][2] # state.history[j][2]
          /\ state.history[i][3] # state.history[j][3]

(***************************************************************************)
(* C16: driver protocol. In every run of the turn loop the players         *)
(* alternate 1, 2, 1, 2, ... from player 1 (the k-th successful move is by *)
(* player 1 for odd k, by player 2 for even k), and no make_turn is issued *)
(* after a make_turn that returned an error or after is_terminal returned  *)
(* a winner.                                                               *)
(***************************************************************************)
\* The k-th history entry is by player 1 for odd k, by player 2 for even k.
Alternates(st) ==
    \A k \in 1..Len(st.history) :
        st.history[k][3] = IF k % 2 = 1 THEN 1 ELSE 2

\* This step issues a make_turn call from the loop.
DriverTurnStep == op' = "make_turn" /\ turn_counter' = turn_counter + 1

C16_DriverProtocol ==
    /\ [](state_result => Alternates(state))
    /\ [][DriverTurnStep => (~DriverEnded /\ err = NoError /\ ~term.has_value)]_vars

\* The loop has ended on a winner: player 2, after an even number of moves,
\* the last of them read past the pattern.
C16_Witness ==
    /\ op = "is_terminal" /\ term = Some(2)
    /\ turns_left < MaxExtra
    /\ Len(state.history) >= 2 * line_len
    /\ Len(state.history) % 2 = 0

(***************************************************************************)
(* C20: driver termination. For every sequence of columns read, the turn   *)
(* loop on a w x h grid ends, with a winner or with an error, after at     *)
(* most w*h successful moves and at most w*h + 1 make_turn calls: every    *)
(* iteration that does not end the loop fills one more cell, and a full    *)
(* column is refused.                                                      *)
(***************************************************************************)
\* turn_counter counts the make_turn calls, the history the successful ones.
CallBounds ==
    state_result =>
        /\ Len(state.history) <= width * height
        /\ turn_counter <= width * height + 1
        /\ Len(state.history) =
              IF op = "make_turn" /\ err # NoError
              THEN turn_counter - 1 ELSE turn_counter

C20_DriverTermination ==
    /\ []CallBounds
    /\ <>DriverEnded

\* The loop has ended on the call after the one that filled the last cell
\* of a grid of at least line_len cells.
C20_Witness ==
    /\ op = "make_turn" /\ err = ColumnFull
    /\ width * height >= line_len
    /\ Len(state.history) = width * height
    /\ turn_counter = width * height + 1
====
